---- MODULE Spec2Model ----
(***************************************************************************)
(* usaid_pdf2sheet.py: open defunded.pdf, take the table of every page,    *)
(* concatenate the rows, build a DataFrame whose header is the first row,  *)
(* write it as usaid_defunded.csv and then as usaid_defunded.xlsx.         *)
(*                                                                         *)
(* The script is one straight line of statements; pc names the statement   *)
(* that runs next.  What the libraries are handed from outside (the file   *)
(* at the input path, what extract_table finds on a page, whether a write  *)
(* succeeds) is chosen nondeterministically.                               *)
(***************************************************************************)
EXTENDS Integers, Sequences, FiniteSets, TLC

VARIABLES
    input,      \* what is at "defunded.pdf": "missing", "invalid" or "pdf"
    numPages,   \* len(pdf.pages) of the document
    tables,     \* what page.extract_table() returned for the pages visited so far
    pc,         \* the statement that runs next, or "done" / "failed"
    pdf,        \* the document handle: "unopened", "open" or "closed"
    all_rows,   \* the aggregate (line 5)
    df,         \* the DataFrame (line 12), None before it is built
    files,      \* the two output files on disk
    files0,     \* the two output files as they were before the run
    failedAt,   \* the statement whose exception ended the run, "none" otherwise
    loaded      \* the table re-derived from the written CSV (round trip only)

vars == <<input, numPages, tables, pc, pdf, all_rows, df, files, files0, failedAt, loaded>>

----------------------------------------------------------------------------
(* Bounds of the model. *)

\* pages of the document
MaxPages == 2
\* rows of one extracted table
MaxRows == 2
\* cells of one extracted row
MaxWidth == 2
\* cells (header cells included) of a DataFrame of the round-trip specification
MaxCsvCells == 4

----------------------------------------------------------------------------
(* Python values. *)

None == [py |-> "None"]

Str(chars) == [py |-> "str", chars |-> chars]

\* a Python list, as extract_table returns one
List(items) == [py |-> "list", items |-> items]

Raise(exc) == [py |-> "raise", exc |-> exc]

IsRaise(v) == v.py = "raise"

\* The text pdfplumber finds in column c of row r of the table of page p: every
\* cell of the document has a text of its own, made of ordinary characters.
CellAt(p, r, c) == Str(<<ToString(p), ToString(r), ToString(c)>>)

RowAt(p, r, w) == [c \in 1..w |-> CellAt(p, r, c)]

\* The lists extract_table can return for page p: an empty list, or 1..MaxRows
\* rows of 1..MaxWidth cells each (the widths may differ). It returns None when
\* it finds no table.
ExtractedTables(p) ==
    UNION {
        { List([r \in 1..n |-> RowAt(p, r, ws[r])]) : ws \in [1..n -> 1..MaxWidth] }
        : n \in 0..MaxRows }

\* `if table:' (line 8): None and the empty list are false.
Truthy(table) == table # None /\ table.items # <<>>

\* list.extend (line 9). A faulty variant puts the new rows in front.
extend_prepend(rows, table) == table.items \o rows

extend(rows, table) == rows \o table.items

----------------------------------------------------------------------------
(* Files. *)

Absent == [state |-> "absent"]

\* a file an earlier run or someone else left at the output path
Old == [state |-> "old"]

\* a truncated or corrupt file left by a write that failed midway
Partial == [state |-> "partial"]

Complete(content) == [state |-> "complete", content |-> content]

----------------------------------------------------------------------------
(* pdfplumber.open (line 4): a missing file or a file that is no PDF raises. *)

\* A faulty variant that opens whatever is there.
pdfplumber_open_any(inp) == "open"

pdfplumber_open(inp) == IF inp = "pdf" THEN "open" ELSE "raise"

\* PDF.__exit__ at the end of the with block, reached normally or by an exception.
\* A faulty variant leaves the handle as it is.
exit_leak(handle) == handle

exit_with(handle) == "closed"

----------------------------------------------------------------------------
(* pd.DataFrame(data, columns=columns) for a list of lists (line 12).       *)
(* pandas makes the rows a 2-D object array as wide as the longest row,     *)
(* filling the shorter rows with None, and raises ValueError when that      *)
(* width is not the number of column names.  An empty data list gives a     *)
(* frame with the columns and no rows.                                      *)

RECURSIVE MaxLen(_)
MaxLen(rows) ==
    IF rows = <<>> THEN 0
    ELSE LET m == MaxLen(Tail(rows))
         IN  IF Len(Head(rows)) > m THEN Len(Head(rows)) ELSE m

Pad(row, w) == [c \in 1..w |-> IF c <= Len(row) THEN row[c] ELSE None]

Frame(columns, data) == [py |-> "DataFrame", columns |-> columns, data |-> data]

\* A faulty variant that never validates: rows are cut or filled to the header's width.
DataFrame_unchecked(data, columns) ==
    Frame(columns, [r \in 1..Len(data) |-> Pad(data[r], Len(columns))])

\* A faulty variant that rejects an empty data list.
DataFrame_rejects_empty(data, columns) ==
    IF data = <<>> \/ MaxLen(data) # Len(columns)
    THEN Raise("ValueError")
    ELSE Frame(columns, [r \in 1..Len(data) |-> Pad(data[r], Len(columns))])

DataFrame(data, columns) ==
    IF data = <<>> THEN Frame(columns, <<>>)
    ELSE IF MaxLen(data) # Len(columns) THEN Raise("ValueError")
    ELSE Frame(columns, [r \in 1..Len(data) |-> Pad(data[r], Len(columns))])

\* A faulty variant that takes an empty aggregate for an empty table.
Structure_empty_ok(rows) ==
    IF rows = <<>> THEN Frame(<<>>, <<>>)
    ELSE DataFrame(Tail(rows), Head(rows))

\* A faulty variant that keeps the header row among the data.
Structure_header_in_data(rows) ==
    IF rows = <<>> THEN Raise("IndexError")
    ELSE DataFrame(rows, Head(rows))

\* A faulty variant that takes the last row for the header.
Structure_last_header(rows) ==
    IF rows = <<>> THEN Raise("IndexError")
    ELSE DataFrame(SubSeq(rows, 1, Len(rows) - 1), rows[Len(rows)])

\* Line 12: all_rows[1:] is the data, all_rows[0] the header; all_rows[0] of an
\* empty list raises IndexError.
Structure(rows) ==
    IF rows = <<>> THEN Raise("IndexError")
    ELSE DataFrame(Tail(rows), Head(rows))

----------------------------------------------------------------------------
(* df.to_csv(path, index=False) (line 13): csv.writer with ',' as the       *)
(* delimiter, '"' as the quote character doubled inside a field, minimal    *)
(* quoting, "\n" ending each record, and na_rep = '' for a missing value.   *)

Comma == ","
Quote == "\""
LF == "\n"

\* na_rep: the text written for a cell, nothing for a missing one.
na_rep(cell) == IF cell = None THEN <<>> ELSE cell.chars

NeedsQuote(chars) == \E k \in 1..Len(chars) : chars[k] \in {Comma, Quote, LF}

RECURSIVE Doubled(_)
Doubled(chars) ==
    IF chars = <<>> THEN <<>>
    ELSE (IF Head(chars) = Quote THEN <<Quote, Quote>> ELSE <<Head(chars)>>)
         \o Doubled(Tail(chars))

\* A faulty variant that never quotes.
QuoteField_never(chars) == chars

QuoteField(chars) ==
    IF NeedsQuote(chars) THEN <<Quote>> \o Doubled(chars) \o <<Quote>> ELSE chars

RECURSIVE Join(_)
Join(fields) ==
    IF fields = <<>> THEN <<>>
    ELSE IF Len(fields) = 1 THEN QuoteField(fields[1])
    ELSE QuoteField(Head(fields)) \o <<Comma>> \o Join(Tail(fields))

\* writer.writerow: a record that would be empty (one empty field) is written "".
writerow(cells) ==
    LET rec == Join([c \in 1..Len(cells) |-> na_rep(cells[c])])
    IN  (IF rec = <<>> THEN <<Quote, Quote>> ELSE rec) \o <<LF>>

RECURSIVE writerows(_)
writerows(rows) ==
    IF rows = <<>> THEN <<>> ELSE writerow(Head(rows)) \o writerows(Tail(rows))

\* A faulty variant that leaves the file unfinished.
to_csv_unfinished(frame) == Partial

\* The header line, then one line per record, no index column.
to_csv(frame) == Complete(writerows(<<frame.columns>> \o frame.data))

\* df.to_excel(path, index=False) (line 14): one sheet, the header row and then
\* the records, no index column.
to_excel(frame) == Complete(<<frame.columns>> \o frame.data)

----------------------------------------------------------------------------
(* Loading the written CSV again: a CSV reader with the writer's dialect     *)
(* (Python's csv.reader), every field taken as text, then the first record   *)
(* as the header and the others as the data, as line 12 does.                *)

\* The reader, one character at a time. state is "start" (a field begins),
\* "field" (in an unquoted field), "quoted" (in a quoted field) or "quote" (a
\* quote was met in a quoted field); field, row and rows are what was read.
RECURSIVE Read(_, _, _, _, _, _)
Read(text, k, state, field, row, rows) ==
    IF k > Len(text)
    THEN IF state = "start" /\ row = <<>> THEN rows
         ELSE Append(rows, Append(row, field))
    ELSE LET ch == text[k]
         IN  IF state = "quoted"
             THEN IF ch = Quote
                  THEN Read(text, k + 1, "quote", field, row, rows)
                  ELSE Read(text, k + 1, "quoted", Append(field, ch), row, rows)
             ELSE IF ch = Quote /\ state = "start"
             THEN Read(text, k + 1, "quoted", field, row, rows)
             ELSE IF ch = Quote /\ state = "quote"
             THEN Read(text, k + 1, "quoted", Append(field, Quote), row, rows)
             ELSE IF ch = Comma
             THEN Read(text, k + 1, "start", <<>>, Append(row, field), rows)
             ELSE IF ch = LF
             THEN Read(text, k + 1, "start", <<>>, <<>>, Append(rows, Append(row, field)))
             ELSE Read(text, k + 1, "field", Append(field, ch), row, rows)

reader(text) == Read(text, 1, "start", <<>>, <<>>, <<>>)

\* A field as a cell: its text, or a missing value for an empty field when the
\* loader takes empty fields for missing values (pandas read_csv does, by
\* default; a plain CSV reader does not).
AsCell(field, na_filter) == IF na_filter /\ field = <<>> THEN None ELSE Str(field)

\* The table re-derived from the file's text.
load_csv(text, na_filter) ==
    LET recs == reader(text)
        cells(rec) == [c \in 1..Len(rec) |-> AsCell(rec[c], na_filter)]
    IN  Frame(cells(recs[1]), [r \in 1..(Len(recs) - 1) |-> cells(recs[r + 1])])

----------------------------------------------------------------------------
(* The run. *)

Init ==
    /\ \/ input \in {"missing", "invalid"} /\ numPages = 0
       \/ input = "pdf" /\ numPages \in 0..MaxPages
    /\ tables = <<>>
    /\ pc = "open"
    /\ pdf = "unopened"
    /\ all_rows = <<>>
    /\ df = None
    /\ \E before \in {Absent, Old} : files0 = [csv |-> before, xlsx |-> before]
    /\ files = files0
    /\ failedAt = "none"
    /\ loaded = None

\* Line 4, the file opens: the with block is entered and line 5 runs.
Open ==
    /\ pc = "open"
    /\ pdfplumber_open(input) = "open"
    /\ pdf' = "open"
    /\ all_rows' = <<>>
    /\ pc' = "loop"
    /\ UNCHANGED <<input, numPages, tables, df, files, files0, failedAt, loaded>>

\* Line 4 raises: the script ends there.
OpenFails ==
    /\ pc = "open"
    /\ pdfplumber_open(input) = "raise"
    /\ pc' = "failed"
    /\ failedAt' = "open"
    /\ UNCHANGED <<input, numPages, tables, pdf, all_rows, df, files, files0, loaded>>

\* Lines 7-9 with what extract_table returned.
Extracted(table) ==
    /\ tables' = Append(tables, table)
    /\ all_rows' = IF Truthy(table) THEN extend(all_rows, table) ELSE all_rows

\* Lines 6-9 for the next page, on which a table (or an empty list) is found.
ExtractPage ==
    /\ pc = "loop"
    /\ Len(tables) < numPages
    /\ \E table \in ExtractedTables(Len(tables) + 1) : Extracted(table)
    /\ UNCHANGED <<input, numPages, pc, pdf, df, files, files0, failedAt, loaded>>

\* Lines 6-9 for the next page, on which no table is found.
ExtractNoTable ==
    /\ pc = "loop"
    /\ Len(tables) < numPages
    /\ Extracted(None)
    /\ UNCHANGED <<input, numPages, pc, pdf, df, files, files0, failedAt, loaded>>

\* pdf.pages or page.extract_table() raises for the next page: the with block is
\* left by the exception, which closes the document.
ExtractFails ==
    /\ pc = "loop"
    /\ Len(tables) < numPages
    /\ pdf' = exit_with(pdf)
    /\ pc' = "failed"
    /\ failedAt' = "extract"
    /\ UNCHANGED <<input, numPages, tables, all_rows, df, files, files0, loaded>>

\* The loop is over: the with block ends and the document is closed.
ExitWith ==
    /\ pc = "loop"
    /\ Len(tables) = numPages
    /\ pdf' = exit_with(pdf)
    /\ pc' = "structure"
    /\ UNCHANGED <<input, numPages, tables, all_rows, df, files, files0, failedAt, loaded>>

\* Line 12.
Structuring ==
    /\ pc = "structure"
    /\ LET r == Structure(all_rows)
       IN  IF IsRaise(r)
           THEN pc' = "failed" /\ failedAt' = "structure" /\ df' = df
           ELSE pc' = "to_csv" /\ failedAt' = failedAt /\ df' = r
    /\ UNCHANGED <<input, numPages, tables, pdf, all_rows, files, files0, loaded>>

\* Line 13 succeeds.
ToCsv ==
    /\ pc = "to_csv"
    /\ files' = [files EXCEPT !.csv = to_csv(df)]
    /\ pc' = "to_excel"
    /\ UNCHANGED <<input, numPages, tables, pdf, all_rows, df, files0, failedAt, loaded>>

\* Line 13 raises (permission denied, disk full): the file is as it was, or is
\* left unfinished.
ToCsvFails ==
    /\ pc = "to_csv"
    /\ \E untouched \in BOOLEAN :
          files' = IF untouched THEN files ELSE [files EXCEPT !.csv = Partial]
    /\ pc' = "failed"
    /\ failedAt' = "to_csv"
    /\ UNCHANGED <<input, numPages, tables, pdf, all_rows, df, files0, loaded>>

\* Line 14 succeeds: the script ends with exit code 0.
ToExcel ==
    /\ pc = "to_excel"
    /\ files' = [files EXCEPT !.xlsx = to_excel(df)]
    /\ pc' = "done"
    /\ UNCHANGED <<input, numPages, tables, pdf, all_rows, df, files0, failedAt, loaded>>

\* Line 14 raises.
ToExcelFails ==
    /\ pc = "to_excel"
    /\ \E untouched \in BOOLEAN :
          files' = IF untouched THEN files ELSE [files EXCEPT !.xlsx = Partial]
    /\ pc' = "failed"
    /\ failedAt' = "to_excel"
    /\ UNCHANGED <<input, numPages, tables, pdf, all_rows, df, files0, loaded>>

Next ==
    \/ Open
    \/ OpenFails
    \/ ExtractPage
    \/ ExtractNoTable
    \/ ExtractFails
    \/ ExitWith
    \/ Structuring
    \/ ToCsv
    \/ ToCsvFails
    \/ ToExcel
    \/ ToExcelFails

Spec == Init /\ [][Next]_vars

----------------------------------------------------------------------------
(* What the claims speak of, stated from the extraction results alone. *)

\* The rows of the tables found so far, page after page, pages without a table
\* left out.
RECURSIVE ConcatTables(_)
ConcatTables(ts) ==
    IF ts = <<>> THEN <<>>
    ELSE LET last == ts[Len(ts)]
             before == ConcatTables(SubSeq(ts, 1, Len(ts) - 1))
         IN  IF last = None THEN before ELSE before \o last.items

Aggregate == ConcatTables(tables)

AllExtracted == input = "pdf" /\ pc \notin {"open", "loop"} /\ Len(tables) = numPages

\* The run got to the write stage.
Writing == pc \in {"to_csv", "to_excel", "done"} \/ failedAt \in {"to_csv", "to_excel"}

FailedAtStructuring == pc = "failed" /\ failedAt = "structure"

\* Some row of the rows is not as long as the first, the header row.
RaggedRow(rows) == \E k \in 1..Len(rows) : Len(rows[k]) # Len(rows[1])

\* There are data rows and the longest of them is not as long as the header row.
WidthMismatch(rows) ==
    /\ Len(rows) >= 2
    /\ \/ \E k \in 2..Len(rows) : Len(rows[k]) > Len(rows[1])
       \/ \A k \in 2..Len(rows) : Len(rows[k]) < Len(rows[1])

\* Row k of the aggregate as a record under n column names: its cells, then None
\* for the cells it lacks.
Filled(row, n) == [c \in 1..n |-> IF c <= Len(row) THEN row[c] ELSE None]

\* Every page has a table, and every row of every table has K cells.
EveryPageKColumns(K) ==
    /\ numPages >= 1
    /\ Len(tables) = numPages
    /\ \A p \in 1..numPages :
          /\ Truthy(tables[p])
          /\ \A r \in 1..Len(tables[p].items) : Len(tables[p].items[r]) = K

\* Every table has T rows.
EveryTableRows(T) == \A p \in 1..Len(tables) : Len(tables[p].items) = T

RECURSIVE SumRows(_)
SumRows(ts) ==
    IF ts = <<>> THEN 0
    ELSE (IF Head(ts) = None THEN 0 ELSE Len(Head(ts).items)) + SumRows(Tail(ts))

\* The cells' texts with commas between them and a line feed at the end: the line
\* of a row none of whose texts needs quoting.
RECURSIVE PlainLine(_)
PlainLine(cells) ==
    IF Len(cells) = 1 THEN cells[1].chars \o <<LF>>
    ELSE cells[1].chars \o <<Comma>> \o PlainLine(Tail(cells))

IsPrefix(a, b) == Len(a) <= Len(b) /\ SubSeq(b, 1, Len(a)) = a

\* The first page on which a table was found, 0 if there is none.
FirstTablePage ==
    IF \E p \in 1..Len(tables) : Truthy(tables[p])
    THEN CHOOSE p \in 1..Len(tables) :
            Truthy(tables[p]) /\ \A q \in 1..(p - 1) : ~Truthy(tables[q])
    ELSE 0

----------------------------------------------------------------------------
(* The claims. *)

\* C1 as stated: if some row of a detected table is not as long as the header
\* row (shorter or longer), the run never gets to the write stage and neither
\* output file is written.
C1_AnyRaggedRowFails ==
    RaggedRow(Aggregate) => /\ ~Writing
                            /\ df = None
                            /\ files = files0

\* C1 amended: it is the longest data row that decides. If there are data rows
\* and the longest is not as long as the header row, the run fails at line 12
\* and neither file is written; line 12 fails for no other aggregate than this
\* and the empty one; and a row shorter than the header beside a full one is
\* filled with missing values, the run going on.
C1_WidestRowDecides ==
    LET rows == Aggregate
        mismatch == WidthMismatch(rows)
    IN  /\ mismatch => ~Writing /\ df = None /\ files = files0
        /\ mismatch /\ AllExtracted /\ pc # "structure" => FailedAtStructuring
        /\ FailedAtStructuring => rows = <<>> \/ mismatch
        /\ df # None =>
              /\ Len(df.data) = Len(rows) - 1
              /\ \A k \in 1..Len(df.data) :
                    df.data[k] = Filled(rows[k + 1], Len(rows[1]))

\* C1 witness: the run failed at line 12 over a data row longer than the header.
C1_Witness ==
    /\ FailedAtStructuring
    /\ WidthMismatch(Aggregate)
    /\ \E k \in 2..Len(Aggregate) : Len(Aggregate[k]) > Len(Aggregate[1])
    /\ files = files0

\* C2 as stated: N pages, each with one K-column table of the same number of
\* rows, give N*R data records and K columns, R being the data rows of a page's
\* table, whether its first row is counted among them (R = T) or not (R = T - 1).
C2_RecordsAreNTimesR ==
    \A K \in 1..MaxWidth : \A T \in 1..MaxRows :
        df # None /\ EveryPageKColumns(K) /\ EveryTableRows(T) =>
            /\ Len(df.columns) = K
            /\ Len(df.data) = numPages * T \/ Len(df.data) = numPages * (T - 1)

\* C2 amended: N pages, each with one K-column table, give K columns and one
\* record less than the tables have rows, the first row of the first page being
\* the header and no other row: N*T - 1 records when every table has T rows, and
\* N*R only when the first table has R + 1 rows and each later table R.
C2_RecordsAreRowsLessHeader ==
    \A K \in 1..MaxWidth :
        df # None /\ EveryPageKColumns(K) =>
            /\ Len(df.columns) = K
            /\ \A k \in 1..Len(df.data) : Len(df.data[k]) = K
            /\ Len(df.data) = SumRows(tables) - 1
            /\ \A T \in 1..MaxRows :
                  EveryTableRows(T) => Len(df.data) = numPages * T - 1
            /\ \A R \in 0..(MaxRows - 1) :
                  /\ Len(tables[1].items) = R + 1
                  /\ \A p \in 2..numPages : Len(tables[p].items) = R
                  => Len(df.data) = numPages * R

\* C2 witness: two pages, each with a table of two rows of two cells, were
\* structured and written.
C2_Witness ==
    /\ pc = "done"
    /\ numPages = 2
    /\ EveryPageKColumns(2)
    /\ EveryTableRows(2)
    /\ Len(df.data) = 3

\* C3: if no page yields a table (None or an empty list for every page), the run
\* fails at line 12 and no output file is written.
C3_NoTableFailsAtStructuring ==
    AllExtracted /\ (\A p \in 1..numPages : ~Truthy(tables[p])) =>
        /\ pc = "structure" \/ FailedAtStructuring
        /\ df = None
        /\ files = files0

\* C3 witness: a document of two pages, one without a table and one with an
\* empty one, failed at line 12.
C3_Witness ==
    /\ FailedAtStructuring
    /\ numPages = 2
    /\ tables = <<None, List(<<>>)>>
    /\ files = files0

\* C4: once the table is structured its header is, cell for cell and in order,
\* the first row of the table of the first page that had one, every later row of
\* the aggregate (the first rows of later tables included) is a data record, and
\* the written CSV begins with that header's line.
C4_HeaderIsFirstRow ==
    df # None =>
        /\ FirstTablePage # 0
        /\ df.columns = tables[FirstTablePage].items[1]
        /\ \A c \in 1..Len(df.columns) : df.columns[c] = CellAt(FirstTablePage, 1, c)
        /\ Len(df.data) = SumRows(tables) - 1
        /\ \A p \in (FirstTablePage + 1)..Len(tables) :
              Truthy(tables[p]) =>
                 \E k \in 1..Len(df.data) :
                    df.data[k] = Filled(tables[p].items[1], Len(df.columns))
        /\ files.csv.state = "complete" =>
              IsPrefix(PlainLine(tables[FirstTablePage].items[1]), files.csv.content)

\* C4 witness: the first page had no table, the second had one of two rows, and
\* both files were written.
C4_Witness ==
    /\ pc = "done"
    /\ numPages = 2
    /\ ~Truthy(tables[1])
    /\ Len(tables[2].items) = 2
    /\ Len(df.columns) = 2

\* C5: after i pages the aggregate is the concatenation, in page order and with
\* the rows of each table in their order, of the tables of those of the first i
\* pages that had one; the i-th result is that of page i.
C5_AggregateIsConcatenation ==
    /\ Len(tables) <= numPages
    /\ all_rows = Aggregate
    /\ Len(all_rows) = SumRows(tables)
    /\ \A p \in 1..Len(tables) :
          Truthy(tables[p]) =>
             \A r \in 1..Len(tables[p].items) :
                \A c \in 1..Len(tables[p].items[r]) :
                   tables[p].items[r][c] = CellAt(p, r, c)

\* C5 witness: in the loop, two pages done, both with a table of two rows.
C5_Witness ==
    /\ pc = "loop"
    /\ Len(tables) = 2
    /\ Len(tables[1].items) = 2
    /\ Len(tables[2].items) = 2
    /\ Len(all_rows) = 4

\* C7 as stated: an empty aggregate and an aggregate of a single row both make
\* line 12 fail, and nothing is written.
C7_EmptyOrHeaderOnlyFails ==
    AllExtracted /\ Len(Aggregate) <= 1 =>
        /\ ~Writing
        /\ files = files0

\* C7 amended: an empty aggregate makes line 12 fail and nothing is written; an
\* aggregate of a single row does not: the table has that row for its header
\* and no record, and the run goes on to write the header alone to both files.
C7_EmptyFailsHeaderOnlyIsWritten ==
    LET rows == Aggregate
    IN  /\ AllExtracted /\ rows = <<>> =>
              /\ pc = "structure" \/ FailedAtStructuring
              /\ ~Writing
              /\ files = files0
        /\ AllExtracted /\ Len(rows) = 1 /\ pc # "structure" =>
              /\ Writing
              /\ df = Frame(rows[1], <<>>)
              /\ pc = "done" =>
                    /\ files.csv = Complete(PlainLine(rows[1]))
                    /\ files.xlsx = Complete(<<rows[1]>>)

\* C7 witness: the only table had one row, and the run ended well with that row
\* as the only line of the CSV.
C7_Witness ==
    /\ pc = "done"
    /\ Len(Aggregate) = 1
    /\ df.data = <<>>
    /\ files.csv.state = "complete"

\* C8: the document handle is open only inside the with block: it is closed
\* when the loop ends, closed when a page raises, and open in no state in which
\* the script has ended.
C8_HandleReleased ==
    /\ pc \in {"done", "failed"} => pdf # "open"
    /\ pdf = "open" <=> pc = "loop"
    /\ pdf = "unopened" <=> pc = "open" \/ (pc = "failed" /\ failedAt = "open")

\* C8 witness: the second page raised and the run ended with the document closed.
C8_Witness ==
    /\ pc = "failed"
    /\ failedAt = "extract"
    /\ Len(tables) = 1
    /\ pdf = "closed"

\* C9: if the input file is missing or is no valid document, the run fails at
\* line 4: no page is visited, no row is aggregated, and the output files are as
\* they were.
C9_BadInputFailsAtOpen ==
    input # "pdf" =>
        /\ pc = "open" \/ (pc = "failed" /\ failedAt = "open")
        /\ pdf = "unopened"
        /\ tables = <<>>
        /\ all_rows = <<>>
        /\ df = None
        /\ files = files0

\* C9 witness: the input was no valid document, the run failed, and the files an
\* earlier run left are still there.
C9_Witness ==
    /\ input = "invalid"
    /\ pc = "failed"
    /\ files0 = [csv |-> Old, xlsx |-> Old]
    /\ files = files0

\* C10: the stages run in the order extract, close, structure, write CSV, write
\* XLSX. The XLSX file is touched only when the CSV file is complete; when the
\* CSV write fails the XLSX file is as it was; when the XLSX write fails the
\* complete CSV of this run is on disk.
C10_StageOrder ==
    /\ pc \in {"structure", "to_csv", "to_excel", "done"} =>
          pdf = "closed" /\ Len(tables) = numPages /\ failedAt = "none"
    /\ pc \in {"to_csv", "to_excel", "done"} => df # None
    /\ pc \in {"open", "loop", "structure", "to_csv"} => files = files0
    /\ failedAt \in {"open", "extract", "structure"} => files = files0
    /\ failedAt = "to_csv" =>
          /\ files.xlsx = files0.xlsx
          /\ files.csv = files0.csv \/ files.csv = Partial
    /\ pc \in {"to_excel", "done"} \/ failedAt = "to_excel" =>
          /\ files.csv.state = "complete"
          /\ files.csv = to_csv(df)
    /\ files.xlsx # files0.xlsx => files.csv.state = "complete"
    /\ failedAt = "to_excel" => files.xlsx = files0.xlsx \/ files.xlsx = Partial
    /\ pc = "done" => files.xlsx = to_excel(df)

\* C10 witness: the XLSX write failed midway and the complete CSV is on disk.
C10_Witness ==
    /\ pc = "failed"
    /\ failedAt = "to_excel"
    /\ files.xlsx = Partial
    /\ files.csv.state = "complete"
    /\ Len(df.data) >= 1

----------------------------------------------------------------------------
(* The round trip through the CSV file: the run is at line 13 with a table   *)
(* whose cells are missing, empty, plain, or a comma, a quote or a line feed; *)
(* the file is written and then loaded again.                                *)

\* The texts of the cells of the round trip.
CsvTexts == {<<>>, <<"a">>, <<Comma>>, <<Quote>>, <<LF>>}

\* The cells of the round trip: a missing value or a text.
CsvCells == {None} \cup {Str(t) : t \in CsvTexts}

CsvRows(n) == [1..n -> CsvCells]

\* The tables of at most MaxCsvCells cells, the header's cells counted.
CsvFrames ==
    UNION { UNION { { Frame(columns, data) :
                         columns \in CsvRows(K), data \in [1..R -> CsvRows(K)] }
                    : R \in { R \in 0..MaxCsvCells : K * (R + 1) <= MaxCsvCells } }
            : K \in 1..MaxCsvCells }

InitCsv ==
    /\ input = "pdf"
    /\ numPages = 1
    /\ df \in CsvFrames
    /\ all_rows = <<df.columns>> \o df.data
    /\ tables = <<List(all_rows)>>
    /\ pc = "to_csv"
    /\ pdf = "closed"
    /\ files0 = [csv |-> Absent, xlsx |-> Absent]
    /\ files = files0
    /\ failedAt = "none"
    /\ loaded = None

\* The written file is loaded again, by a loader of either kind.
LoadCsv ==
    /\ files.csv.state = "complete"
    /\ loaded = None
    /\ \E na_filter \in BOOLEAN : loaded' = load_csv(files.csv.content, na_filter)
    /\ UNCHANGED <<input, numPages, tables, pc, pdf, all_rows, df, files, files0, failedAt>>

NextCsv ==
    \/ ToCsv
    \/ LoadCsv

SpecCsv == InitCsv /\ [][NextCsv]_vars

\* A table with every missing cell made an empty text.
Blanked(frame) ==
    LET blank(row) == [c \in 1..Len(row) |-> IF row[c] = None THEN Str(<<>>) ELSE row[c]]
    IN  [columns |-> blank(frame.columns),
         data |-> [r \in 1..Len(frame.data) |-> blank(frame.data[r])]]

====
